---- MODULE Spec2Model ----
(***************************************************************************)
(* Model of the image upload route, src/app/api/upload/route.ts.           *)
(*                                                                         *)
(* The source file holds two revisions of the route handler:               *)
(*   - lines 1-209: POST with the storage selector, uploadToGCS and        *)
(*     uploadToVercelBlob (route = "fallback");                            *)
(*   - lines 210-367: POST writing to Google Cloud Storage only, with the  *)
(*     retry loop inline (route = "gcsOnly").                              *)
(* One request is followed from its arrival to its response.  Every await  *)
(* of a backend call or of the pause is a step of its own.                 *)
(*                                                                         *)
(* Strings that the code concatenates (file names, object keys, URLs) are  *)
(* sequences of pieces; a file name is a sequence of characters.           *)
(***************************************************************************)
EXTENDS Integers, Sequences, FiniteSets, TLC

VARIABLES route, env, storage, request, pc, backend, timestamp, fileName,
          retries, publicUrl, blob, trace, response

\* concurrent invocations of the handler: the one that is running, and the
\* local variables of those suspended at an await
VARIABLES current, parked

\* a file name, and the results of sanitizing it again and again
VARIABLES sanName, sanResults

\* the add-coupon page (src/unnamed/part_001)
VARIABLES form, submitting, formError, pushes, pagePc, payload, res, submissions

uploadVars == <<route, env, storage, request, pc, backend, timestamp, fileName,
                retries, publicUrl, blob, trace, response>>

handlerVars == <<current, parked>>

sanitizeVars == <<sanName, sanResults>>

pageVars == <<form, submitting, formError, pushes, pagePc, payload, res,
              submissions>>

vars == <<uploadVars, handlerVars, sanitizeVars, pageVars>>

--------------------------------------------------------------------------
(* Bounds of the model *)

MaxNameLen == 2

NameChars == {" ", "A", "b", "_"}

Timestamps == {7, 42}

FileSizes == {1, 15 * 1024 * 1024, 15 * 1024 * 1024 + 1}

FileTypes == {"image/jpeg", "image/avif", "image/gif", ""}

Null == "<null>"

DirectoryFields == {Null, "", "products/banner", "uploads"}

BucketNames == {Null, "", "admin-images"}

Tokens == {Null, "blob-token"}

NoError == [isError |-> FALSE, message |-> "<no error>"]

\* values a failed backend call can throw: Error instances and a non-Error
ThrownValues == {[isError |-> TRUE, message |-> "ECONNRESET"],
                 [isError |-> TRUE, message |-> "Permission denied"],
                 [isError |-> FALSE, message |-> "<not an Error>"]}

FormDataError == [isError |-> TRUE, message |-> "Failed to parse body as FormData."]

NoResponse == [status |-> 0, error |-> Null, details |-> Null,
               url |-> <<>>, fileName |-> <<>>, storage |-> Null]

--------------------------------------------------------------------------
(* Strings *)

BoundedSeq(S, n) == UNION {[1..m -> S] : m \in 0..n}

FileNames == BoundedSeq(NameChars, MaxNameLen)

DigitChars == <<"0", "1", "2", "3", "4", "5", "6", "7", "8", "9">>

RECURSIVE NumberToString(_)
NumberToString(n) ==
    IF n < 10 THEN <<DigitChars[n + 1]>>
    ELSE NumberToString(n \div 10) \o <<DigitChars[(n % 10) + 1]>>

UpperCase == <<"A", "B", "C", "D", "E", "F", "G", "H", "I", "J", "K", "L", "M",
               "N", "O", "P", "Q", "R", "S", "T", "U", "V", "W", "X", "Y", "Z">>

LowerCase == <<"a", "b", "c", "d", "e", "f", "g", "h", "i", "j", "k", "l", "m",
               "n", "o", "p", "q", "r", "s", "t", "u", "v", "w", "x", "y", "z">>

Range(s) == {s[i] : i \in 1..Len(s)}

\* \s of the regular expression
Whitespace == {" ", "\t", "\n", "\r"}

\* [a-zA-Z0-9.-]
KeptChars == Range(UpperCase) \cup Range(LowerCase) \cup Range(DigitChars) \cup {".", "-"}

RECURSIVE SkipWhitespace(_)
SkipWhitespace(s) ==
    IF s # <<>> /\ Head(s) \in Whitespace THEN SkipWhitespace(Tail(s)) ELSE s

\* .replace(/\s+/g, '-')
RECURSIVE ReplaceWhitespace(_)
ReplaceWhitespace(s) ==
    IF s = <<>> THEN <<>>
    ELSE IF Head(s) \in Whitespace
         THEN <<"-">> \o ReplaceWhitespace(SkipWhitespace(Tail(s)))
         ELSE <<Head(s)>> \o ReplaceWhitespace(Tail(s))

\* puts a space where a special character was
RemoveSpecial_ToSpace(s) ==
    [i \in 1..Len(s) |-> IF s[i] \in KeptChars THEN s[i] ELSE " "]

\* .replace(/[^a-zA-Z0-9.-]/g, '')
RemoveSpecial(s) == SelectSeq(s, LAMBDA c : c \in KeptChars)

ToLowerChar(c) ==
    IF c \in Range(UpperCase)
    THEN LowerCase[CHOOSE i \in 1..Len(UpperCase) : UpperCase[i] = c]
    ELSE c

\* .toLowerCase()
ToLowerCase(s) == [i \in 1..Len(s) |-> ToLowerChar(s[i])]

sanitizedFileName(name) == ToLowerCase(RemoveSpecial(ReplaceWhitespace(name)))

\* `${directory}/${timestamp}-${name}`
ObjectKey(directory, ts, name) ==
    <<directory, "/">> \o NumberToString(ts) \o <<"-">> \o name

\* publicUrl is left empty
GcsUrl_Empty(bucketName, key) == <<>>

\* `https://storage.googleapis.com/${bucketName}/${fileName}`
GcsUrl(bucketName, key) == <<"https://storage.googleapis.com/", bucketName, "/">> \o key

\* the url of the blob that put() resolves with
BlobUrl(key) == <<"https://blob.vercel-storage.com/">> \o key

--------------------------------------------------------------------------
(* Validation *)

allowedTypes == {"image/jpeg", "image/jpg", "image/png", "image/webp", "image/avif"}

maxSize == 15 * 1024 * 1024

allowedDirectories == {"courses", "batches", "general", "products",
                       "products/banner", "category-icons", "logos"}

Truthy(v) == v # Null /\ v # ""

\* the directory field is used as it came
directory_NoDefault(req) == req.directory

\* formData.get('directory') as string || 'general'
directory(req) == IF Truthy(req.directory) THEN req.directory ELSE "general"

TypeAllowed_AnyImage(type) == type \in allowedTypes \cup {"image/gif"}

TypeAllowed(type) == type \in allowedTypes

TooLarge_Inclusive(size) == size >= maxSize

TooLarge(size) == size > maxSize

DirectoryAllowed_Uploads(dir) == dir \in allowedDirectories \cup {"uploads"}

DirectoryAllowed(dir) == dir \in allowedDirectories

ErrNoFile == "No file provided"
ErrInvalidType == "Invalid file type. Only JPEG, PNG, WebP, and AVIF images are allowed."
ErrTooLarge == "File too large. Maximum size is 15MB."
ErrInvalidDirectory == "Invalid directory. Allowed directories: courses, batches, general, products, products/banner, category-icons, logos"
ErrBucketNotSet == "Server configuration error: GCS_BUCKET_NAME not set"
ErrNotConfigured == "Server configuration error: Neither GCS nor Vercel Blob is configured properly"
ErrFailed == "Failed to upload file"

ValidationError_SizeFirst(req) ==
    IF ~req.file THEN ErrNoFile
    ELSE IF TooLarge(req.size) THEN ErrTooLarge
    ELSE IF ~TypeAllowed(req.type) THEN ErrInvalidType
    ELSE IF ~DirectoryAllowed(directory(req)) THEN ErrInvalidDirectory
    ELSE Null

\* the error of the first validation check that fails, Null when all pass
ValidationError(req) ==
    IF ~req.file THEN ErrNoFile
    ELSE IF ~TypeAllowed(req.type) THEN ErrInvalidType
    ELSE IF TooLarge(req.size) THEN ErrTooLarge
    ELSE IF ~DirectoryAllowed(directory(req)) THEN ErrInvalidDirectory
    ELSE Null

--------------------------------------------------------------------------
(* Responses *)

Rejection(err, st) == [NoResponse EXCEPT !.status = st, !.error = err]

\* error instanceof Error ? error.message : 'Unknown error'
ErrorDetails(error) == IF error.isError THEN error.message ELSE "Unknown error"

\* the catch block of POST
CatchResponse(error) ==
    [NoResponse EXCEPT !.status = 500, !.error = ErrFailed,
                       !.details = ErrorDetails(error)]

Success(url, key, st) ==
    [NoResponse EXCEPT !.status = 200, !.url = url, !.fileName = key, !.storage = st]

Write(b, kind, e) == [kind |-> kind, backend |-> b, error |-> e]

Pause(b) == [kind |-> "pause", backend |-> b, error |-> NoError]

--------------------------------------------------------------------------
(* State after module initialisation, with one request waiting *)

Requests ==
    {[bodyOk |-> FALSE, file |-> FALSE, name |-> <<>>, size |-> 1,
      type |-> "", directory |-> Null]}
    \cup
    {[bodyOk |-> TRUE, file |-> FALSE, name |-> <<>>, size |-> 1,
      type |-> "", directory |-> d] : d \in DirectoryFields}
    \cup
    [bodyOk : {TRUE}, file : {TRUE}, name : FileNames, size : FileSizes,
     type : FileTypes, directory : DirectoryFields]

\* one invocation of the handler, none suspended
SingleHandler == current = 1 /\ parked = <<>>

\* nothing is being sanitized outside the handler
SanitizeIdle == sanName = <<>> /\ sanResults = <<>>

\* the add-coupon page is not open
PageIdle ==
    /\ form = Null
    /\ submitting = FALSE
    /\ formError = ""
    /\ pushes = <<>>
    /\ pagePc = "closed"
    /\ payload = Null
    /\ res = Null
    /\ submissions = 0

Init ==
    /\ route \in {"fallback", "gcsOnly"}
    /\ env \in [GCS_BUCKET_NAME : BucketNames, BLOB_READ_WRITE_TOKEN : Tokens]
    \* new Storage() inside try/catch (fallback) or at top level (gcsOnly)
    /\ storage \in IF route = "fallback" THEN {"Storage", Null} ELSE {"Storage"}
    /\ request \in Requests
    /\ pc = "start"
    /\ backend = Null
    /\ timestamp = 0
    /\ fileName = <<>>
    /\ retries = 0
    /\ publicUrl = <<>>
    /\ blob = Null
    /\ trace = <<>>
    /\ response = NoResponse
    /\ SingleHandler
    /\ SanitizeIdle
    /\ PageIdle

--------------------------------------------------------------------------
(* POST of the revision with the storage selector (lines 24-112), up to the *)
(* first backend call of uploadToGCS or uploadToVercelBlob                  *)

\* one retry short of the budget
InitialRetries_Two == 3 - 1

InitialRetries == 3

useGCS_BucketOnly(bucketName, st) == Truthy(bucketName)

\* const useGCS = bucketName && storage
useGCS(bucketName, st) == Truthy(bucketName) /\ st # Null

\* the token is never looked at
TokenConfigured_Unchecked(token) == TRUE

\* !process.env.BLOB_READ_WRITE_TOKEN does not hold
TokenConfigured(token) == Truthy(token)

Respond(r) ==
    /\ response' = r
    /\ pc' = "done"

POST ==
    /\ route = "fallback"
    /\ pc = "start"
    /\ IF ~request.bodyOk
       THEN \* request.formData() throws
            /\ Respond(CatchResponse(FormDataError))
            /\ UNCHANGED <<backend, timestamp, fileName, retries>>
       ELSE IF ValidationError(request) # Null
       THEN /\ Respond(Rejection(ValidationError(request), 400))
            /\ UNCHANGED <<backend, timestamp, fileName, retries>>
       ELSE \E ts \in Timestamps :
            /\ timestamp' = ts
            /\ fileName' = ObjectKey(directory(request), ts, request.name)
            /\ IF useGCS(env.GCS_BUCKET_NAME, storage)
               THEN /\ backend' = "gcs"
                    /\ retries' = InitialRetries
                    /\ pc' = "attempt"
                    /\ UNCHANGED response
               ELSE /\ backend' = "vercel-blob"
                    /\ IF ~TokenConfigured(env.BLOB_READ_WRITE_TOKEN)
                       THEN /\ Respond(Rejection(ErrNotConfigured, 500))
                            /\ UNCHANGED retries
                       ELSE /\ retries' = InitialRetries
                            /\ pc' = "attempt"
                            /\ UNCHANGED response
    /\ UNCHANGED <<route, env, storage, request, publicUrl, blob, trace>>
    /\ UNCHANGED <<handlerVars, sanitizeVars, pageVars>>

--------------------------------------------------------------------------
(* uploadToGCS (lines 115-164) *)

NoUrlError == [isError |-> TRUE, message |-> "Upload failed - no URL returned"]

NoBlobError == [isError |-> TRUE, message |-> "Upload failed - no blob returned"]

\* the try block runs to its end: blob.save resolved
uploadToGCS_save ==
    /\ route = "fallback" /\ backend = "gcs" /\ pc = "attempt"
    /\ trace' = Append(trace, Write("gcs", "ok", NoError))
    /\ publicUrl' = GcsUrl(env.GCS_BUCKET_NAME, fileName)
    \* break, then the guard after the loop
    /\ IF publicUrl' = <<>>
       THEN Respond(CatchResponse(NoUrlError))
       ELSE Respond(Success(publicUrl', fileName, "gcs"))
    /\ UNCHANGED <<route, env, storage, request, backend, timestamp, fileName,
                   retries, blob>>
    /\ UNCHANGED <<handlerVars, sanitizeVars, pageVars>>

\* re-throws the error of the first attempt instead of the caught one
uploadToGCS_catch_FirstError ==
    /\ route = "fallback" /\ backend = "gcs" /\ pc = "attempt"
    /\ \E e \in ThrownValues :
        /\ trace' = Append(trace, Write("gcs", "fail", e))
        /\ retries' = retries - 1
        /\ IF retries' = 0
           THEN Respond(CatchResponse(trace'[1].error))
           ELSE pc' = "wait" /\ UNCHANGED response
    /\ UNCHANGED <<route, env, storage, request, backend, timestamp, fileName,
                   publicUrl, blob>>
    /\ UNCHANGED <<handlerVars, sanitizeVars, pageVars>>

\* the try block throws e
uploadToGCS_catch ==
    /\ route = "fallback" /\ backend = "gcs" /\ pc = "attempt"
    /\ \E e \in ThrownValues :
        /\ trace' = Append(trace, Write("gcs", "fail", e))
        /\ retries' = retries - 1
        /\ IF retries' = 0
           THEN Respond(CatchResponse(e))
           ELSE pc' = "wait" /\ UNCHANGED response
    /\ UNCHANGED <<route, env, storage, request, backend, timestamp, fileName,
                   publicUrl, blob>>
    /\ UNCHANGED <<handlerVars, sanitizeVars, pageVars>>

\* the pause is over: back to the loop condition
uploadToGCS_wait ==
    /\ route = "fallback" /\ backend = "gcs" /\ pc = "wait"
    /\ trace' = Append(trace, Pause("gcs"))
    /\ IF retries > 0
       THEN pc' = "attempt" /\ UNCHANGED response
       ELSE IF publicUrl = <<>>
            THEN Respond(CatchResponse(NoUrlError))
            ELSE Respond(Success(publicUrl, fileName, "gcs"))
    /\ UNCHANGED <<route, env, storage, request, backend, timestamp, fileName,
                   retries, publicUrl, blob>>
    /\ UNCHANGED <<handlerVars, sanitizeVars, pageVars>>

--------------------------------------------------------------------------
(* uploadToVercelBlob (lines 167-209), after the token check *)

\* no break after the successful put: the loop goes on while retries are left
uploadToVercelBlob_put_NoBreak ==
    /\ route = "fallback" /\ backend = "vercel-blob" /\ pc = "attempt"
    /\ trace' = Append(trace, Write("vercel-blob", "ok", NoError))
    /\ blob' = "PutBlobResult"
    /\ retries' = retries - 1
    /\ IF retries' = 0
       THEN Respond(Success(BlobUrl(fileName), fileName, "vercel-blob"))
       ELSE pc' = "attempt" /\ UNCHANGED response
    /\ UNCHANGED <<route, env, storage, request, backend, timestamp, fileName,
                   publicUrl>>
    /\ UNCHANGED <<handlerVars, sanitizeVars, pageVars>>

uploadToVercelBlob_put ==
    /\ route = "fallback" /\ backend = "vercel-blob" /\ pc = "attempt"
    /\ trace' = Append(trace, Write("vercel-blob", "ok", NoError))
    /\ blob' = "PutBlobResult"
    /\ IF blob' = Null
       THEN Respond(CatchResponse(NoBlobError))
       ELSE Respond(Success(BlobUrl(fileName), fileName, "vercel-blob"))
    /\ UNCHANGED <<route, env, storage, request, backend, timestamp, fileName,
                   retries, publicUrl>>
    /\ UNCHANGED <<handlerVars, sanitizeVars, pageVars>>

\* the exhausted budget is not noticed in the catch block
uploadToVercelBlob_catch_NoRethrow ==
    /\ route = "fallback" /\ backend = "vercel-blob" /\ pc = "attempt"
    /\ \E e \in ThrownValues :
        /\ trace' = Append(trace, Write("vercel-blob", "fail", e))
        /\ retries' = retries - 1
        /\ pc' = "wait"
        /\ UNCHANGED response
    /\ UNCHANGED <<route, env, storage, request, backend, timestamp, fileName,
                   publicUrl, blob>>
    /\ UNCHANGED <<handlerVars, sanitizeVars, pageVars>>

uploadToVercelBlob_catch ==
    /\ route = "fallback" /\ backend = "vercel-blob" /\ pc = "attempt"
    /\ \E e \in ThrownValues :
        /\ trace' = Append(trace, Write("vercel-blob", "fail", e))
        /\ retries' = retries - 1
        /\ IF retries' = 0
           THEN Respond(CatchResponse(e))
           ELSE pc' = "wait" /\ UNCHANGED response
    /\ UNCHANGED <<route, env, storage, request, backend, timestamp, fileName,
                   publicUrl, blob>>
    /\ UNCHANGED <<handlerVars, sanitizeVars, pageVars>>

uploadToVercelBlob_wait ==
    /\ route = "fallback" /\ backend = "vercel-blob" /\ pc = "wait"
    /\ trace' = Append(trace, Pause("vercel-blob"))
    /\ IF retries > 0
       THEN pc' = "attempt" /\ UNCHANGED response
       ELSE IF blob = Null
            THEN Respond(CatchResponse(NoBlobError))
            ELSE Respond(Success(BlobUrl(fileName), fileName, "vercel-blob"))
    /\ UNCHANGED <<route, env, storage, request, backend, timestamp, fileName,
                   retries, publicUrl, blob>>
    /\ UNCHANGED <<handlerVars, sanitizeVars, pageVars>>

--------------------------------------------------------------------------
(* POST of the revision that writes to Google Cloud Storage only           *)
(* (lines 228-367)                                                         *)

POST_gcsOnly ==
    /\ route = "gcsOnly"
    /\ pc = "start"
    /\ IF ~request.bodyOk
       THEN /\ Respond(CatchResponse(FormDataError))
            /\ UNCHANGED <<backend, timestamp, fileName, retries>>
       ELSE IF ValidationError(request) # Null
       THEN /\ Respond(Rejection(ValidationError(request), 400))
            /\ UNCHANGED <<backend, timestamp, fileName, retries>>
       ELSE IF ~Truthy(env.GCS_BUCKET_NAME)
       THEN /\ Respond(Rejection(ErrBucketNotSet, 500))
            /\ UNCHANGED <<backend, timestamp, fileName, retries>>
       ELSE \E ts \in Timestamps :
            /\ timestamp' = ts
            /\ fileName' = ObjectKey(directory(request), ts,
                                     sanitizedFileName(request.name))
            /\ backend' = "gcs"
            /\ retries' = InitialRetries
            /\ pc' = "attempt"
            /\ UNCHANGED response
    /\ UNCHANGED <<route, env, storage, request, publicUrl, blob, trace>>
    /\ UNCHANGED <<handlerVars, sanitizeVars, pageVars>>

POST_gcsOnly_save ==
    /\ route = "gcsOnly" /\ backend = "gcs" /\ pc = "attempt"
    /\ trace' = Append(trace, Write("gcs", "ok", NoError))
    /\ publicUrl' = GcsUrl(env.GCS_BUCKET_NAME, fileName)
    /\ IF publicUrl' = <<>>
       THEN Respond(CatchResponse(NoUrlError))
       ELSE Respond(Success(publicUrl', fileName, Null))
    /\ UNCHANGED <<route, env, storage, request, backend, timestamp, fileName,
                   retries, blob>>
    /\ UNCHANGED <<handlerVars, sanitizeVars, pageVars>>

\* the re-thrown error is not caught by POST: the handler ends without a
\* response
POST_gcsOnly_catch_Escapes ==
    /\ route = "gcsOnly" /\ backend = "gcs" /\ pc = "attempt"
    /\ \E e \in ThrownValues :
        /\ trace' = Append(trace, Write("gcs", "fail", e))
        /\ retries' = retries - 1
        /\ IF retries' = 0
           THEN pc' = "done" /\ UNCHANGED response
           ELSE pc' = "wait" /\ UNCHANGED response
    /\ UNCHANGED <<route, env, storage, request, backend, timestamp, fileName,
                   publicUrl, blob>>
    /\ UNCHANGED <<handlerVars, sanitizeVars, pageVars>>

\* pauses after every failed attempt, the last one included
POST_gcsOnly_catch_AlwaysPause ==
    /\ route = "gcsOnly" /\ backend = "gcs" /\ pc = "attempt"
    /\ \E e \in ThrownValues :
        /\ trace' = Append(trace, Write("gcs", "fail", e))
        /\ retries' = retries - 1
        /\ pc' = "wait"
        /\ UNCHANGED response
    /\ UNCHANGED <<route, env, storage, request, backend, timestamp, fileName,
                   publicUrl, blob>>
    /\ UNCHANGED <<handlerVars, sanitizeVars, pageVars>>

POST_gcsOnly_catch ==
    /\ route = "gcsOnly" /\ backend = "gcs" /\ pc = "attempt"
    /\ \E e \in ThrownValues :
        /\ trace' = Append(trace, Write("gcs", "fail", e))
        /\ retries' = retries - 1
        /\ IF retries' = 0
           THEN Respond(CatchResponse(e))
           ELSE pc' = "wait" /\ UNCHANGED response
    /\ UNCHANGED <<route, env, storage, request, backend, timestamp, fileName,
                   publicUrl, blob>>
    /\ UNCHANGED <<handlerVars, sanitizeVars, pageVars>>

POST_gcsOnly_wait ==
    /\ route = "gcsOnly" /\ backend = "gcs" /\ pc = "wait"
    /\ trace' = Append(trace, Pause("gcs"))
    /\ IF retries > 0
       THEN pc' = "attempt" /\ UNCHANGED response
       ELSE IF publicUrl = <<>>
            THEN Respond(CatchResponse(NoUrlError))
            ELSE Respond(Success(publicUrl, fileName, Null))
    /\ UNCHANGED <<route, env, storage, request, backend, timestamp, fileName,
                   retries, publicUrl, blob>>
    /\ UNCHANGED <<handlerVars, sanitizeVars, pageVars>>

--------------------------------------------------------------------------

Next ==
    \/ POST
    \/ uploadToGCS_save
    \/ uploadToGCS_catch
    \/ uploadToGCS_wait
    \/ uploadToVercelBlob_put
    \/ uploadToVercelBlob_catch
    \/ uploadToVercelBlob_wait
    \/ POST_gcsOnly
    \/ POST_gcsOnly_save
    \/ POST_gcsOnly_catch
    \/ POST_gcsOnly_wait

Spec == Init /\ [][Next]_vars

--------------------------------------------------------------------------
(* Views of the state used by the properties *)

Writes == SelectSeq(trace, LAMBDA ev : ev.kind # "pause")

Pauses == SelectSeq(trace, LAMBDA ev : ev.kind = "pause")

TypeOK ==
    /\ pc \in {"start", "attempt", "wait", "done"}
    /\ retries \in 0..InitialRetries
    /\ backend \in {Null, "gcs", "vercel-blob"}
    /\ response.status \in {0, 200, 400, 500}

--------------------------------------------------------------------------
(* Vocabulary of the properties, written out as the specification states it *)

StatedTypes == {"image/jpeg", "image/jpg", "image/png", "image/webp", "image/avif"}

StatedDirectories == {"courses", "batches", "general", "products",
                      "products/banner", "category-icons", "logos"}

FilePresent == request.bodyOk /\ request.file

Done == pc = "done"

\* the directory field carries a value
DirectoryGiven == request.directory # Null

\* the request passes the file, MIME type and size checks
PassesFileChecks ==
    /\ FilePresent
    /\ request.type \in StatedTypes
    /\ request.size <= 15 * 1024 * 1024

NoStorageAction == trace = <<>> /\ backend = Null /\ fileName = <<>>

\* C1: a present file whose MIME type is not one of the five allowed types
\* is answered with the InvalidType rejection (400) and no write attempt is
\* ever made for it, whatever its size, directory and the configuration.
C1_InvalidTypeRejected ==
    (FilePresent /\ request.type \notin StatedTypes) =>
        /\ Writes = <<>>
        /\ pc \in {"start", "done"}
        /\ Done => response = Rejection(ErrInvalidType, 400)

C1_Witness ==
    /\ Done /\ FilePresent
    /\ request.type = "image/gif"
    /\ request.size = 1
    /\ request.directory = "products/banner"
    /\ env.GCS_BUCKET_NAME = "admin-images" /\ storage = "Storage"
    /\ response.error = ErrInvalidType

\* C2: a present file of allowed type gets the TooLarge rejection (400), with
\* no write attempt, exactly when its size is above 15 * 1024 * 1024 bytes;
\* a file of exactly 15728640 bytes is not rejected for its size.
C2_TooLargeIffAboveLimit ==
    (Done /\ FilePresent /\ request.type \in StatedTypes) =>
        /\ (response = Rejection(ErrTooLarge, 400)) <=> (request.size > 15 * 1024 * 1024)
        /\ (request.size > 15 * 1024 * 1024) => Writes = <<>>
        /\ (request.size = 15728640) => response.error # ErrTooLarge

C2_Witness ==
    /\ Done /\ FilePresent
    /\ request.type \in StatedTypes
    /\ request.size = 15728640
    /\ response.status = 200
    /\ Len(Writes) = 1

\* C3 as stated: a request that passes the file, type and size checks and
\* whose directory value is outside the allow-list is answered with the
\* InvalidDirectory rejection (400) and makes no write attempt.
C3_Original ==
    (PassesFileChecks /\ DirectoryGiven /\ request.directory \notin StatedDirectories) =>
        /\ Writes = <<>>
        /\ Done => response = Rejection(ErrInvalidDirectory, 400)

\* C3 (amended): a request that passes the file, type and size checks and
\* whose directory value is a non-empty string outside the allow-list is
\* answered with the InvalidDirectory rejection (400) and makes no write
\* attempt; an empty directory value is replaced by "general".
C3_InvalidDirectoryRejected ==
    (PassesFileChecks /\ DirectoryGiven /\ request.directory # ""
        /\ request.directory \notin StatedDirectories) =>
        /\ Writes = <<>>
        /\ pc \in {"start", "done"}
        /\ Done => response = Rejection(ErrInvalidDirectory, 400)

C3_Witness ==
    /\ Done /\ PassesFileChecks
    /\ request.directory = "uploads"
    /\ response = Rejection(ErrInvalidDirectory, 400)
    /\ trace = <<>>

\* the earliest violated check, in the stated order: missing file, MIME
\* type, byte size, directory
FirstViolatedCheck ==
    IF ~request.file THEN ErrNoFile
    ELSE IF request.type \notin StatedTypes THEN ErrInvalidType
    ELSE IF request.size > 15 * 1024 * 1024 THEN ErrTooLarge
    ELSE IF directory(request) \notin StatedDirectories THEN ErrInvalidDirectory
    ELSE Null

\* C4: the checks are applied in the order missing file, MIME type, byte
\* size, directory; the response reports the earliest violated check, and
\* after a violated check no later check or storage action is performed.
C4_FirstFailingCheckReported ==
    (request.bodyOk /\ FirstViolatedCheck # Null) =>
        /\ NoStorageAction
        /\ pc \in {"start", "done"}
        /\ Done => response = Rejection(FirstViolatedCheck, 400)

C4_Witness ==
    /\ Done /\ FilePresent
    /\ request.type = ""
    /\ request.size > 15 * 1024 * 1024
    /\ request.directory = "uploads"
    /\ response = Rejection(ErrInvalidType, 400)

--------------------------------------------------------------------------
(* Retry policy *)

WriteKinds == [i \in 1..Len(Writes) |-> Writes[i].kind]

\* the request passed every validation check
ValidRequest == request.bodyOk /\ FirstViolatedCheck = Null

\* C5: when the first and the second write attempt of a valid request fail
\* and the third succeeds, exactly 3 attempts are made and the response is
\* the success response (200 with url and fileName), on the object-store
\* path and on the blob-store path.
C5_TwoFailuresThenSuccess ==
    (Len(Writes) >= 2 /\ Writes[1].kind = "fail" /\ Writes[2].kind = "fail") =>
        /\ ValidRequest
        /\ Len(Writes) = 2 => ~Done
        /\ Done => Len(Writes) = 3
        /\ (Done /\ Writes[3].kind = "ok") =>
              /\ response.status = 200
              /\ response.url # <<>>
              /\ response.fileName = fileName /\ fileName # <<>>
              /\ response.error = Null
              /\ \A i \in 1..3 : Writes[i].backend = backend

C5_Witness ==
    /\ Done
    /\ WriteKinds = <<"fail", "fail", "ok">>
    /\ backend = "vercel-blob"
    /\ response.status = 200

\* C6: when the write call fails on all 3 attempts the response has status
\* 500 and its details field is the message of the error raised by the third
\* attempt, not that of the first or second.
C6_LastErrorReported ==
    (Done /\ WriteKinds = <<"fail", "fail", "fail">>) =>
        /\ response.status = 500
        /\ response.error = ErrFailed
        /\ Writes[3].error.isError => response.details = Writes[3].error.message

C6_Witness ==
    /\ Done
    /\ WriteKinds = <<"fail", "fail", "fail">>
    /\ Writes[1].error.message = "ECONNRESET"
    /\ Writes[2].error.message = "ECONNRESET"
    /\ Writes[3].error.message = "Permission denied"
    /\ response.details = "Permission denied"

\* C7: once a write attempt of a request has succeeded no further attempt
\* (and no pause) is made: the successful attempt is the last event of the
\* request, so at most one write succeeds.
C7_SuccessEndsRetries ==
    /\ \A i \in 1..Len(trace) : trace[i].kind = "ok" => (i = Len(trace) /\ Done)
    /\ Cardinality({i \in 1..Len(Writes) : Writes[i].kind = "ok"}) <= 1

C7_Witness ==
    /\ Done
    /\ WriteKinds = <<"fail", "ok">>
    /\ retries = 2
    /\ response.status = 200

\* C8: at most 3 write attempts are made, a retry only follows a failed
\* attempt, and exactly one pause separates consecutive attempts: attempts
\* and pauses alternate, and when the request is answered the number of
\* pauses is the number of attempts minus one.
C8_BoundedRetriesWithPauses ==
    /\ Len(Writes) <= 3
    /\ \A i \in 2..Len(Writes) : Writes[i - 1].kind = "fail"
    /\ \A i \in 1..Len(trace) : (trace[i].kind = "pause") <=> (i % 2 = 0)
    /\ (Done /\ Writes # <<>>) => Len(Pauses) = Len(Writes) - 1
    /\ (Done /\ Writes = <<>>) => Pauses = <<>>

C8_Witness ==
    /\ Done
    /\ WriteKinds = <<"fail", "fail", "fail">>
    /\ Len(Pauses) = 2
    /\ trace[Len(trace)].kind = "fail"
    /\ route = "gcsOnly"

--------------------------------------------------------------------------
(* Storage selection of the revision with the selector *)

StatedBackend ==
    IF env.GCS_BUCKET_NAME \notin {Null, ""} /\ storage = "Storage"
    THEN "gcs" ELSE "vercel-blob"

--------------------------------------------------------------------------
(* Object key *)

\* C10 as stated: for every successful upload the key written to the
\* backend and returned as fileName is directory/timestamp-sanitized(name).
C10_KeyIsSanitized ==
    response.status = 200 =>
        /\ response.fileName = fileName
        /\ fileName = ObjectKey(directory(request), timestamp,
                                sanitizedFileName(request.name))

--------------------------------------------------------------------------
(* Outcomes *)

OkWrites == {i \in 1..Len(Writes) : Writes[i].kind = "ok"}

\* C12: there is no partial success: the response is a success (200)
\* exactly when one write call of the request completed successfully, and
\* every 400 or 500 response goes with no successful write.
C12_NoPartialSuccess ==
    /\ Cardinality(OkWrites) <= 1
    /\ ~Done => response = NoResponse
    /\ Done =>
        /\ response.status \in {200, 400, 500}
        /\ (response.status = 200) <=> (Cardinality(OkWrites) = 1)
        /\ response.status \in {400, 500} => OkWrites = {}

C12_Witness ==
    /\ Done
    /\ WriteKinds = <<"ok">>
    /\ backend = "gcs"
    /\ response.status = 200
    /\ response.url # <<>>

\* C13 as stated: when GCS_BUCKET_NAME is not set an otherwise valid upload
\* fails with the configuration error "GCS_BUCKET_NAME not set" (500) and
\* nothing is written to any storage backend.
C13_MissingBucketIsConfigError ==
    (ValidRequest /\ env.GCS_BUCKET_NAME = Null) =>
        /\ trace = <<>>
        /\ pc \in {"start", "done"}
        /\ Done => response = Rejection(ErrBucketNotSet, 500)

\* C15 as stated: an absent directory field means "general" (the request
\* passes the directory check and the key starts with "general/"); a field
\* that is present with a value outside the allow-list, the empty string
\* included, is rejected as InvalidDirectory and not replaced by the default.
C15_Original ==
    (Done /\ PassesFileChecks) =>
        /\ ~DirectoryGiven =>
              /\ response.error # ErrInvalidDirectory
              /\ fileName # <<>> => fileName[1] = "general"
        /\ (DirectoryGiven /\ request.directory \notin StatedDirectories) =>
              /\ response = Rejection(ErrInvalidDirectory, 400)
              /\ fileName = <<>>

\* C15 (amended): an absent directory field, and likewise an empty one,
\* means "general": the request passes the directory check and the key
\* starts with "general/"; a field that is present with a non-empty value
\* outside the allow-list is rejected as InvalidDirectory and not replaced
\* by the default.
C15_DefaultDirectory ==
    (Done /\ PassesFileChecks) =>
        /\ request.directory \in {Null, ""} =>
              /\ response.error # ErrInvalidDirectory
              /\ fileName # <<>> => fileName[1] = "general"
              /\ response.status = 200 => response.fileName[1] = "general"
        /\ (request.directory \notin {Null, ""}
              /\ request.directory \notin StatedDirectories) =>
              /\ response = Rejection(ErrInvalidDirectory, 400)
              /\ fileName = <<>>

C15_Witness ==
    /\ Done /\ PassesFileChecks
    /\ ~DirectoryGiven
    /\ response.status = 200
    /\ response.fileName[1] = "general"
    /\ response.fileName[2] = "/"

\* C16: in the route with the storage selector, when the cloud object store
\* is not selected and the blob-store token is not configured, a valid
\* request gets a 500 configuration error with no write attempt and no
\* pause: the failure is found before the retry loop and never retried.
C16_MissingTokenNotRetried ==
    (route = "fallback" /\ ValidRequest /\ StatedBackend = "vercel-blob"
        /\ env.BLOB_READ_WRITE_TOKEN = Null) =>
        /\ trace = <<>>
        /\ retries = 0
        /\ pc \in {"start", "done"}
        /\ Done => response = Rejection(ErrNotConfigured, 500)

C16_Witness ==
    /\ route = "fallback" /\ ValidRequest /\ Done
    /\ env.GCS_BUCKET_NAME = "admin-images"
    /\ storage = Null
    /\ env.BLOB_READ_WRITE_TOKEN = Null
    /\ response = Rejection(ErrNotConfigured, 500)
    /\ Writes = <<>> /\ Pauses = <<>>

--------------------------------------------------------------------------
(* The retry loops *)

FailedWrites == {i \in 1..Len(Writes) : Writes[i].kind = "fail"}

\* a retry loop was entered
LoopEntered == pc \in {"attempt", "wait"} \/ trace # <<>>

\* how a loop is left, and that the guards after the loops never throw
LoopExit ==
    (Done /\ LoopEntered) =>
        /\ trace[Len(trace)].kind # "pause"
        /\ \/ /\ trace[Len(trace)].kind = "ok"
              /\ response.status = 200
           \/ /\ trace[Len(trace)].kind = "fail"
              /\ retries = 0
              /\ response = CatchResponse(trace[Len(trace)].error)
        /\ response.details \notin {"Upload failed - no URL returned",
                                    "Upload failed - no blob returned"}

\* C17 as stated: in every retry loop attempts made + retries left = 3 with
\* 0 <= retries <= 3 at every step, the loop is left only by a successful
\* write or by re-throwing the error of the attempt that brought retries to
\* 0, and the guards after the loops are unreachable.
C17_Original ==
    /\ LoopEntered =>
        /\ Len(Writes) + retries = 3
        /\ retries \in 0..3
    /\ LoopExit

\* C17 (amended): in every retry loop failed attempts + retries left = 3
\* with 0 <= retries <= 3 at every step (a successful attempt does not take
\* from the budget), the loop is left only by a successful write or by
\* re-throwing the error of the attempt that brought retries to 0, and the
\* guards after the loops are unreachable.
C17_RetryCounter ==
    /\ LoopEntered =>
        /\ Cardinality(FailedWrites) + retries = 3
        /\ retries \in 0..3
        /\ pc \in {"attempt", "wait"} => (retries > 0 /\ OkWrites = {})
    /\ LoopExit

C17_Witness ==
    /\ Done
    /\ WriteKinds = <<"fail", "fail", "fail">>
    /\ retries = 0
    /\ backend = "vercel-blob"
    /\ response.details = "ECONNRESET"

--------------------------------------------------------------------------
(* Termination *)

\* every backend call and every pause eventually returns
LiveSpec == Spec /\ WF_vars(Next)

\* C18: when every backend call and every pause eventually returns, every
\* invocation of POST eventually ends, with exactly one response, whose
\* status is 200, 400 or 500: no error leaves the handler without a
\* response and the handler never loops forever.
C18_Terminates ==
    /\ <>Done
    /\ [](Done <=> response # NoResponse)
    /\ [](Done => response.status \in {200, 400, 500})
    /\ [][Done => (pc' = pc /\ response' = response)]_vars

C18_Witness ==
    /\ Done
    /\ Len(trace) = 5
    /\ route = "gcsOnly"
    /\ response.status = 500
    /\ response.details = "Unknown error"

--------------------------------------------------------------------------
(* Filename sanitization on its own: the sanitizing expression of          *)
(* lines 287-290 applied to a name and then to its own result              *)

MaxSanLen == 3

SanChars == {" ", "\t", "A", "b", "7", ".", "-", "_"}

SanNames == BoundedSeq(SanChars, MaxSanLen)

\* no request is being handled
UploadIdle ==
    /\ route = "gcsOnly"
    /\ env = [GCS_BUCKET_NAME |-> Null, BLOB_READ_WRITE_TOKEN |-> Null]
    /\ storage = "Storage"
    /\ request = [bodyOk |-> FALSE, file |-> FALSE, name |-> <<>>, size |-> 1,
                  type |-> "", directory |-> Null]
    /\ pc = "none"
    /\ backend = Null
    /\ timestamp = 0
    /\ fileName = <<>>
    /\ retries = 0
    /\ publicUrl = <<>>
    /\ blob = Null
    /\ trace = <<>>
    /\ response = NoResponse

InitSanitize ==
    /\ UploadIdle
    /\ SingleHandler
    /\ PageIdle
    /\ sanName \in SanNames
    /\ sanResults = <<>>

Sanitize ==
    /\ Len(sanResults) < 2
    /\ sanResults' = Append(sanResults,
           sanitizedFileName(IF sanResults = <<>> THEN sanName
                             ELSE sanResults[Len(sanResults)]))
    /\ UNCHANGED <<sanName, uploadVars, handlerVars, pageVars>>

NextSanitize == Sanitize

SpecSanitize == InitSanitize /\ [][NextSanitize]_vars

\* C11: sanitizing an already sanitized name yields the same name, for every
\* name over whitespace, upper-case and lower-case letters, digits, dot,
\* hyphen and other symbols.
C11_SanitizeIdempotent ==
    Len(sanResults) = 2 => sanResults[2] = sanResults[1]

C11_Witness ==
    /\ sanName = <<" ", "A", "_">>
    /\ Len(sanResults) = 2
    /\ sanResults[1] = <<"-", "a">>
    /\ sanResults[2] = <<"-", "a">>

--------------------------------------------------------------------------
(* Concurrent requests.  The route module is loaded once; every request is *)
(* an invocation of POST with its own local variables.  Invocations run on *)
(* one thread and hand over to each other where they await.                *)

Handlers == {1, 2}

\* the local variables of the running invocation
CurrentLocals ==
    [request |-> request, pc |-> pc, backend |-> backend,
     timestamp |-> timestamp, fileName |-> fileName, retries |-> retries,
     publicUrl |-> publicUrl, blob |-> blob, trace |-> trace,
     response |-> response]

\* the local variables of an invocation that has not run yet
InitialLocals(req) ==
    [request |-> req, pc |-> "start", backend |-> Null,
     timestamp |-> 0, fileName |-> <<>>, retries |-> 0,
     publicUrl |-> <<>>, blob |-> Null, trace |-> <<>>,
     response |-> NoResponse]

ConcurrentRequests ==
    {[bodyOk |-> TRUE, file |-> TRUE, name |-> <<"A">>, size |-> 1,
      type |-> t, directory |-> d] :
        t \in {"image/jpeg", "image/gif"}, d \in {Null, "products/banner"}}

InitConcurrent ==
    /\ route \in {"fallback", "gcsOnly"}
    /\ env \in [GCS_BUCKET_NAME : {Null, "admin-images"},
                BLOB_READ_WRITE_TOKEN : {"blob-token"}]
    /\ storage = "Storage"
    /\ current = 1
    /\ request \in ConcurrentRequests
    /\ pc = "start"
    /\ backend = Null
    /\ timestamp = 0
    /\ fileName = <<>>
    /\ retries = 0
    /\ publicUrl = <<>>
    /\ blob = Null
    /\ trace = <<>>
    /\ response = NoResponse
    /\ parked \in {(2 :> InitialLocals(r)) : r \in ConcurrentRequests}
    /\ SanitizeIdle
    /\ PageIdle

\* retries lives at module level: the running invocation's value stays
Switch_SharedRetries(j) ==
    /\ j \in DOMAIN parked
    /\ current' = j
    /\ parked' = [i \in (DOMAIN parked \ {j}) \cup {current} |->
                    IF i = current THEN CurrentLocals ELSE parked[i]]
    /\ request' = parked[j].request
    /\ pc' = parked[j].pc
    /\ backend' = parked[j].backend
    /\ timestamp' = parked[j].timestamp
    /\ fileName' = parked[j].fileName
    /\ publicUrl' = parked[j].publicUrl
    /\ blob' = parked[j].blob
    /\ trace' = parked[j].trace
    /\ response' = parked[j].response
    /\ UNCHANGED <<retries, route, env, storage, sanitizeVars, pageVars>>

\* the running invocation is suspended at its await (or has returned) and
\* invocation j runs on: the locals go with their invocation, the module
\* level (route, env, storage) stays
Switch(j) ==
    /\ j \in DOMAIN parked
    /\ current' = j
    /\ parked' = [i \in (DOMAIN parked \ {j}) \cup {current} |->
                    IF i = current THEN CurrentLocals ELSE parked[i]]
    /\ request' = parked[j].request
    /\ pc' = parked[j].pc
    /\ backend' = parked[j].backend
    /\ timestamp' = parked[j].timestamp
    /\ fileName' = parked[j].fileName
    /\ retries' = parked[j].retries
    /\ publicUrl' = parked[j].publicUrl
    /\ blob' = parked[j].blob
    /\ trace' = parked[j].trace
    /\ response' = parked[j].response
    /\ UNCHANGED <<route, env, storage, sanitizeVars, pageVars>>

Resume == \E j \in Handlers : Switch(j)

NextConcurrent ==
    \/ Next
    \/ Resume

SpecConcurrent == InitConcurrent /\ [][NextConcurrent]_vars

\* the local variables of invocation i
Local(i) == IF i = current THEN CurrentLocals ELSE parked[i]

WritesOf(L) == SelectSeq(L.trace, LAMBDA ev : ev.kind # "pause")

FailuresOf(L) == {k \in 1..Len(WritesOf(L)) : WritesOf(L)[k].kind = "fail"}

SelectedBackend == IF route = "gcsOnly" THEN "gcs" ELSE StatedBackend

\* the budget, key, backend and result of invocation i are its own
OwnUpload(i) ==
    LET L == Local(i)
        W == WritesOf(L)
    IN  /\ Len(W) <= 3
        /\ L.trace # <<>> => Cardinality(FailuresOf(L)) + L.retries = 3
        /\ L.pc \in {"attempt", "wait"} =>
              Cardinality(FailuresOf(L)) + L.retries = 3
        /\ L.backend # Null => L.backend = SelectedBackend
        /\ \A k \in 1..Len(W) : W[k].backend = SelectedBackend
        /\ L.fileName # <<>> => L.fileName[1] = directory(L.request)
        /\ L.pc = "done" =>
              /\ L.response.status = 200 =>
                    /\ W # <<>> /\ W[Len(W)].kind = "ok"
                    /\ L.response.fileName = L.fileName
              /\ (W # <<>> /\ W[Len(W)].kind = "fail") =>
                    /\ Len(W) = 3
                    /\ L.response = CatchResponse(W[3].error)

\* a step changes the locals of the running invocation only, and the
\* storage client handle never
OnlyOwnLocalsChange ==
    /\ storage' = storage
    /\ \A i \in Handlers :
          Local(i)' # Local(i) => (i = current /\ current' = current)

\* C14: concurrent requests share no mutable state: in every interleaving
\* each request has its own budget of 3 attempts, its own key and result;
\* the failures, retries and pauses of one request never change the
\* attempts, backend or response of another, and the module-level storage
\* client handle is never reassigned after module initialisation.
C14_NoSharedMutableState ==
    /\ [](\A i \in Handlers : OwnUpload(i))
    /\ [][OnlyOwnLocalsChange]_vars

C14_Witness ==
    /\ Local(1).pc = "wait"
    /\ Len(Local(1).trace) = 3
    /\ Local(1).retries = 1
    /\ Local(2).pc = "done"
    /\ Local(2).response.status = 200
    /\ Local(2).retries = 3
    /\ Local(1).fileName # Local(2).fileName

--------------------------------------------------------------------------
(* The add-coupon page, src/unnamed/part_001: onSubmit (lines 146-190) and *)
(* the buttons (lines 389-397).  formError is the page's `error` state;    *)
(* pushes lists who called router.push('/coupons').                        *)

MaxSubmissions == 2

Forms ==
    [code : {"", "SAVE10"}, discountType : {"percent", "fixed"},
     discountValue : {"", "10"}, maxDiscountAmount : {"", "50"}]

\* Number(form.discountValue)
ToNumber(v) == IF v = "" THEN 0 ELSE 10

\* v || null
OrNull(v) == IF v = "" THEN Null ELSE v

\* the fields of the request body that depend on the form
Payload(f) ==
    [code |-> f.code,
     discountType |-> f.discountType,
     discountValue |-> ToNumber(f.discountValue),
     maxDiscountAmount |-> IF f.discountType = "percent"
                           THEN OrNull(f.maxDiscountAmount) ELSE Null]

\* what fetch rejects with
FetchErrors == {"Failed to fetch", "Load failed"}

\* what res.json() of a non-ok response resolves with: a body with an error
\* text, a body without one (also the {} of the .catch), null
ErrorBodies == {[isNull |-> FALSE, error |-> "Coupon code already exists"],
                [isNull |-> FALSE, error |-> ""],
                [isNull |-> FALSE, error |-> Null],
                [isNull |-> TRUE, error |-> Null]}

\* new Error(data.error || 'Failed to create coupon').message, or the
\* message of the TypeError of reading null.error
ErrorMessage(data) ==
    IF data.isNull THEN "Cannot read properties of null (reading 'error')"
    ELSE IF Truthy(data.error) THEN data.error
    ELSE "Failed to create coupon"

\* the page is shown, the picklists are loaded or have failed to load
InitPage ==
    /\ UploadIdle
    /\ SingleHandler
    /\ SanitizeIdle
    /\ form \in Forms
    /\ submitting = FALSE
    /\ formError \in {"", "Failed to load products/categories"}
    /\ pushes = <<>>
    /\ pagePc = "idle"
    /\ payload = Null
    /\ res = Null
    /\ submissions = 0

Mounted == pushes = <<>>

\* the form is submitted: onSubmit up to the await of fetch
onSubmit ==
    /\ Mounted
    /\ pagePc = "idle"
    /\ ~submitting
    /\ submissions < MaxSubmissions
    /\ submissions' = submissions + 1
    /\ submitting' = TRUE
    /\ formError' = ""
    /\ payload' = Payload(form)
    /\ res' = "pending"
    /\ pagePc' = "fetching"
    /\ UNCHANGED <<form, pushes, uploadVars, handlerVars, sanitizeVars>>

\* fetch resolves with an ok response
onSubmit_ok ==
    /\ pagePc = "fetching"
    /\ res' = "ok"
    /\ pushes' = Append(pushes, "submit")
    /\ submitting' = FALSE
    /\ pagePc' = "idle"
    /\ UNCHANGED <<form, formError, payload, submissions,
                   uploadVars, handlerVars, sanitizeVars>>

\* fetch resolves with a response that is not ok: await res.json()
onSubmit_notOk ==
    /\ pagePc = "fetching"
    /\ res' = "notOk"
    /\ pagePc' = "reading"
    /\ UNCHANGED <<form, submitting, formError, pushes, payload, submissions,
                   uploadVars, handlerVars, sanitizeVars>>

\* the catch block never runs finally: submitting stays set
onSubmit_throw_NoFinally ==
    /\ pagePc = "reading"
    /\ \E data \in ErrorBodies : formError' = ErrorMessage(data)
    /\ pagePc' = "idle"
    /\ UNCHANGED <<form, submitting, pushes, payload, res, submissions,
                   uploadVars, handlerVars, sanitizeVars>>

\* the body is read, the Error is thrown and caught
onSubmit_throw ==
    /\ pagePc = "reading"
    /\ \E data \in ErrorBodies : formError' = ErrorMessage(data)
    /\ submitting' = FALSE
    /\ pagePc' = "idle"
    /\ UNCHANGED <<form, pushes, payload, res, submissions,
                   uploadVars, handlerVars, sanitizeVars>>

\* fetch rejects
onSubmit_catch ==
    /\ pagePc = "fetching"
    /\ \E m \in FetchErrors : formError' = m
    /\ res' = "threw"
    /\ submitting' = FALSE
    /\ pagePc' = "idle"
    /\ UNCHANGED <<form, pushes, payload, submissions,
                   uploadVars, handlerVars, sanitizeVars>>

\* the Cancel button
Cancel ==
    /\ Mounted
    /\ pushes' = Append(pushes, "cancel")
    /\ UNCHANGED <<form, submitting, formError, pagePc, payload, res,
                   submissions, uploadVars, handlerVars, sanitizeVars>>

\* the awaited calls of onSubmit settle
Settle ==
    \/ onSubmit_ok
    \/ onSubmit_notOk
    \/ onSubmit_throw
    \/ onSubmit_catch

NextPage ==
    \/ onSubmit
    \/ Settle
    \/ Cancel

SpecPage == InitPage /\ [][NextPage]_vars

\* fetch and res.json() eventually settle; the user need not do anything
LivePage == SpecPage /\ WF_vars(Settle)

SubmitNavigated == \E i \in 1..Len(pushes) : pushes[i] = "submit"

\* C19: every submission sets submitting before the POST to /api/coupons
\* and ends with submitting = false on every path; onSubmit navigates to
\* /coupons exactly when the response was ok, and after a non-ok response
\* or a rejected fetch it does not navigate and error is a non-empty message.
C19_SubmitLifecycle ==
    /\ [](pagePc \in {"fetching", "reading"} => (submitting /\ formError = ""))
    /\ [](pagePc = "idle" => ~submitting)
    /\ (submitting ~> ~submitting)
    /\ [](SubmitNavigated <=> (pagePc = "idle" /\ res = "ok"))
    /\ []((pagePc = "idle" /\ res \in {"notOk", "threw"}) =>
              (~SubmitNavigated /\ formError # ""))

C19_Witness ==
    /\ pagePc = "idle"
    /\ submissions = 2
    /\ res = "notOk"
    /\ ~submitting
    /\ formError = "Failed to create coupon"
    /\ pushes = <<>>

====
